---- MODULE Spec2Model ----
(***************************************************************************)
(* A model of the operator-precedence parsing engine:                      *)
(*   - op.rs              the precedence derivation (Op::new_unchecked)    *)
(*   - grammar.rs         the grammar builder and SortTable::add_op        *)
(*   - simple_shunter.rs  the shunting iterator (Shunter::next)            *)
(*   - parsing/parse.rs   Parser::parse                                    *)
(* The lexer builder, the implicit-operator preprocessor and the lowering  *)
(* of a grammar to a precedence table are not part of these files; they    *)
(* are modelled from the specification and marked so where they appear.    *)
(***************************************************************************)
EXTENDS Integers, Sequences, FiniteSets, TLC

(***************************************************************************)
(* Bounds of the model.                                                    *)
(***************************************************************************)
\* number of group() calls a builder run makes
MaxGroups == 2
\* length of the token sequences handed to the parser
MaxLen == 4
\* number of builder calls explored from a first state
MaxCalls == 2

(***************************************************************************)
(* Program constants.                                                      *)
(***************************************************************************)
\* Prec = u16: Prec::MAX and the modulus of its wrapping arithmetic
PrecMAX == 65535
PrecMod == 65536
\* the three reserved tokens; the first registered token is 3
TOKEN_ERROR == 0
TOKEN_BLANK == 1
TOKEN_JUXTAPOSE == 2
FirstFreeToken == 3

(***************************************************************************)
(* Option<T>: None is the empty sequence, Some(x) the one-element one.     *)
(***************************************************************************)
None == <<>>
Some(x) == <<x>>
IsSome(o) == o # None
Unwrap(o) == o[1]

Fixities == {"Nilfix", "Prefix", "Suffix", "Infix"}
Assocs == {"Left", "Right"}

(***************************************************************************)
(* op.rs                                                                   *)
(***************************************************************************)
\* prec - 1 on a u16 (wrapping)
Sub1(prec) == (prec + PrecMod - 1) % PrecMod

\* a derivation that gives a left-associative infix no ground on its right
derive_precs_equal(fixity, assoc, prec) ==
    CASE fixity = "Nilfix" -> <<None, None>>
      [] fixity = "Prefix" /\ assoc = "Left" -> <<None, Some(Sub1(prec))>>
      [] fixity = "Prefix" /\ assoc = "Right" -> <<None, Some(prec)>>
      [] fixity = "Suffix" /\ assoc = "Left" -> <<Some(prec), None>>
      [] fixity = "Suffix" /\ assoc = "Right" -> <<Some(Sub1(prec)), None>>
      [] fixity = "Infix" /\ assoc = "Left" -> <<Some(prec), Some(prec)>>
      [] fixity = "Infix" /\ assoc = "Right" -> <<Some(Sub1(prec)), Some(prec)>>

\* the match on (fixity, assoc) of Op::new_unchecked
derive_precs(fixity, assoc, prec) ==
    CASE fixity = "Nilfix" -> <<None, None>>
      [] fixity = "Prefix" /\ assoc = "Left" -> <<None, Some(Sub1(prec))>>
      [] fixity = "Prefix" /\ assoc = "Right" -> <<None, Some(prec)>>
      [] fixity = "Suffix" /\ assoc = "Left" -> <<Some(prec), None>>
      [] fixity = "Suffix" /\ assoc = "Right" -> <<Some(Sub1(prec)), None>>
      [] fixity = "Infix" /\ assoc = "Left" -> <<Some(prec), Some(Sub1(prec))>>
      [] fixity = "Infix" /\ assoc = "Right" -> <<Some(Sub1(prec)), Some(prec)>>

derive_arity(fixity, followers) ==
    CASE fixity = "Nilfix" -> Len(followers)
      [] fixity \in {"Prefix", "Suffix"} -> Len(followers) + 1
      [] fixity = "Infix" -> Len(followers) + 2

new_unchecked(name, fixity, assoc, prec, first_token, followers) ==
    [name |-> name,
     fixity |-> fixity,
     assoc |-> assoc,
     prec |-> prec,
     first_token |-> first_token,
     followers |-> followers,
     left_prec |-> derive_precs(fixity, assoc, prec)[1],
     right_prec |-> derive_precs(fixity, assoc, prec)[2],
     arity |-> derive_arity(fixity, followers)]

\* the two names Op::new asserts against
AssertedNames == {"$Juxtapose", "$MissingAtom"}

Op_new(name, fixity, assoc, prec, first_token, followers) ==
    new_unchecked(name, fixity, assoc, prec, Some(first_token), followers)

new_atom(name, token) ==
    new_unchecked(name, "Nilfix", "Left", 0, Some(token), <<>>)

new_missing_atom ==
    new_unchecked("$MissingAtom", "Nilfix", "Left", 0, None, <<>>)

\* the $Blank operator of a sort table (built like new_missing_atom)
new_blank ==
    new_unchecked("$Blank", "Nilfix", "Left", 0, None, <<>>)

\* the only $Juxtapose constructor op.rs defines
new_juxtapose(prec) ==
    new_unchecked("$Juxtapose", "Infix", "Right", prec, None, <<>>)

(***************************************************************************)
(* The lexer builder (an external collaborator): a list of registered      *)
(* patterns; registering a pattern again yields the same token.            *)
(***************************************************************************)
LexerBuilder_new == <<>>

PatternIndex(lb, pat) ==
    IF \E i \in 1..Len(lb) : lb[i] = pat
    THEN CHOOSE i \in 1..Len(lb) : lb[i] = pat
    ELSE 0

LexerBuilder_register(lb, pat) ==
    IF PatternIndex(lb, pat) # 0
    THEN [lb |-> lb, token |-> PatternIndex(lb, pat) - 1 + FirstFreeToken]
    ELSE [lb |-> Append(lb, pat), token |-> Len(lb) + FirstFreeToken]

LexerBuilder_string(lb, string) ==
    LexerBuilder_register(lb, <<"string", string>>)

LexerBuilder_regex(lb, regex) ==
    LexerBuilder_register(lb, <<"regex", regex>>)

(***************************************************************************)
(* grammar.rs: results of the builder calls                                *)
(***************************************************************************)
Ok == [tag |-> "Ok"]
PrecNotSet == [tag |-> "PrecNotSet"]
SortNotSet == [tag |-> "SortNotSet"]
RegexError == [tag |-> "RegexError"]
Panic == [tag |-> "Panic"]
DuplicateOp(op_1, op_2, sort_name) ==
    [tag |-> "DuplicateOp", op_1 |-> op_1, op_2 |-> op_2, sort |-> sort_name]

\* insertion into a HashMap, kept as a function
MapInsert(m, k, v) == (k :> v) @@ m

(***************************************************************************)
(* grammar.rs: SortTable                                                   *)
(***************************************************************************)
SortTable_new(sort_name) ==
    [sort |-> sort_name,
     token_to_prefixy_op |-> <<>>,
     token_to_suffixy_op |-> <<>>,
     blank |-> new_blank,
     juxtapose |-> new_juxtapose(0)]

\* while token >= mapping.len() { mapping.push(None) }
RECURSIVE PadTo(_, _)
PadTo(mapping, token) ==
    IF token >= Len(mapping) THEN PadTo(Append(mapping, None), token) ELSE mapping

\* mapping[token], vectors being indexed from 0
At(mapping, token) == mapping[token + 1]

\* an add_op that lets the newcomer take an occupied slot
add_op_overwrite(st, theop) ==
    IF theop.name = "$Juxtapose"
    THEN [st |-> [st EXCEPT !.juxtapose = theop], res |-> Ok]
    ELSE IF theop.name = "$Blank"
    THEN [st |-> [st EXCEPT !.blank = theop], res |-> Ok]
    ELSE IF theop.first_token = None
    THEN [st |-> st, res |-> Panic]
    ELSE LET token == Unwrap(theop.first_token)
             prefixy == theop.fixity \in {"Prefix", "Nilfix"}
             mapping == PadTo(IF prefixy THEN st.token_to_prefixy_op
                              ELSE st.token_to_suffixy_op, token)
         IN [st |-> IF prefixy
                    THEN [st EXCEPT !.token_to_prefixy_op =
                              [mapping EXCEPT ![token + 1] = Some(theop)]]
                    ELSE [st EXCEPT !.token_to_suffixy_op =
                              [mapping EXCEPT ![token + 1] = Some(theop)]],
             res |-> Ok]

\* an add_op that keeps one table for both kinds of operator
add_op_one_table(st, theop) ==
    IF theop.name = "$Juxtapose"
    THEN [st |-> [st EXCEPT !.juxtapose = theop], res |-> Ok]
    ELSE IF theop.name = "$Blank"
    THEN [st |-> [st EXCEPT !.blank = theop], res |-> Ok]
    ELSE IF theop.first_token = None
    THEN [st |-> st, res |-> Panic]
    ELSE LET token == Unwrap(theop.first_token)
             mapping == PadTo(st.token_to_prefixy_op, token)
         IN IF IsSome(At(mapping, token))
            THEN [st |-> [st EXCEPT !.token_to_prefixy_op = mapping],
                  res |-> DuplicateOp(theop.name, Unwrap(At(mapping, token)).name, st.sort)]
            ELSE [st |-> [st EXCEPT !.token_to_prefixy_op =
                              [mapping EXCEPT ![token + 1] = Some(theop)]],
                  res |-> Ok]

add_op(st, theop) ==
    IF theop.name = "$Juxtapose"
    THEN [st |-> [st EXCEPT !.juxtapose = theop], res |-> Ok]
    ELSE IF theop.name = "$Blank"
    THEN [st |-> [st EXCEPT !.blank = theop], res |-> Ok]
    ELSE IF theop.first_token = None
    THEN [st |-> st, res |-> Panic]
    ELSE LET token == Unwrap(theop.first_token)
             prefixy == theop.fixity \in {"Prefix", "Nilfix"}
             mapping == PadTo(IF prefixy THEN st.token_to_prefixy_op
                              ELSE st.token_to_suffixy_op, token)
             padded == IF prefixy THEN [st EXCEPT !.token_to_prefixy_op = mapping]
                       ELSE [st EXCEPT !.token_to_suffixy_op = mapping]
         IN IF IsSome(At(mapping, token))
            THEN [st |-> padded,
                  res |-> DuplicateOp(theop.name, Unwrap(At(mapping, token)).name, st.sort)]
            ELSE [st |-> IF prefixy
                         THEN [st EXCEPT !.token_to_prefixy_op =
                                   [mapping EXCEPT ![token + 1] = Some(theop)]]
                         ELSE [st EXCEPT !.token_to_suffixy_op =
                                   [mapping EXCEPT ![token + 1] = Some(theop)]],
                  res |-> Ok]

(***************************************************************************)
(* grammar.rs: Grammar                                                     *)
(***************************************************************************)
Grammar_new ==
    [sort_tables |-> <<>>,
     sort_ids |-> <<>>,
     token_names |-> <<>>,
     lexer_builder |-> LexerBuilder_new,
     current_sort |-> None,
     current_prec |-> 0]

\* sort_tables[sort_id], vectors being indexed from 0
TableOf(g, sort_id) == g.sort_tables[sort_id + 1]

insert_sort(g, sort_name) ==
    IF sort_name \in DOMAIN g.sort_ids
    THEN [g |-> g, sort_id |-> g.sort_ids[sort_name]]
    ELSE [g |-> [g EXCEPT !.sort_ids = MapInsert(g.sort_ids, sort_name, Len(g.sort_tables)),
                          !.sort_tables = Append(g.sort_tables, SortTable_new(sort_name))],
          sort_id |-> Len(g.sort_tables)]

sort(g, sort_name) ==
    [g |-> [insert_sort(g, sort_name).g EXCEPT
                !.current_sort = Some(insert_sort(g, sort_name).sort_id)],
     res |-> Ok]

\* self.current_prec += 1 on a u16
group(g) ==
    [g |-> [g EXCEPT !.current_prec = (g.current_prec + 1) % PrecMod], res |-> Ok]

\* group where the build checks arithmetic overflow: += 1 at Prec::MAX aborts
group_overflow_checked(g) ==
    IF g.current_prec = PrecMAX THEN [g |-> g, res |-> Panic] ELSE group(g)

\* n calls of group, one after another
RECURSIVE groups(_, _)
groups(g, n) ==
    IF n = 0 THEN g
    ELSE IF n = 1 THEN group(g).g
    ELSE LET half == groups(g, n \div 2)
         IN IF half.current_prec \in Nat THEN groups(half, n - (n \div 2)) ELSE g

add_string_token(g, string) ==
    LET r == LexerBuilder_string(g.lexer_builder, string)
    IN [g |-> [g EXCEPT !.lexer_builder = r.lb,
                        !.token_names = MapInsert(g.token_names, r.token, <<"'", string, "'">>)],
        token |-> r.token]

add_regex_token(g, regex_pattern, name) ==
    LET r == LexerBuilder_regex(g.lexer_builder, regex_pattern)
    IN [g |-> [g EXCEPT !.lexer_builder = r.lb,
                        !.token_names = MapInsert(g.token_names, r.token, <<name>>)],
        token |-> r.token]

get_prec(g) ==
    IF g.current_prec > 0 THEN Some(g.current_prec) ELSE None

\* the grammar after sort_table.add_op(op) on the current sort's table
add_to_current_sort(g, theop) ==
    IF g.current_sort = None
    THEN [g |-> g, res |-> SortNotSet]
    ELSE LET sort_id == Unwrap(g.current_sort)
             r == add_op(TableOf(g, sort_id), theop)
         IN [g |-> [g EXCEPT !.sort_tables[sort_id + 1] = r.st], res |-> r.res]

\* a string_atom that declares the atom in the current group, as op does
string_atom_in_group(g, name, string_pattern) ==
    LET t == add_string_token(g, string_pattern)
    IN IF get_prec(t.g) = None
       THEN [g |-> t.g, res |-> PrecNotSet]
       ELSE add_to_current_sort(t.g,
                new_unchecked(name, "Nilfix", "Left", Unwrap(get_prec(t.g)),
                              Some(t.token), <<>>))

string_atom(g, name, string_pattern) ==
    LET t == add_string_token(g, string_pattern)
    IN add_to_current_sort(t.g, new_atom(name, t.token))

\* valid: whether the lexer accepts the regex
regex_atom(g, name, regex_pattern, valid) ==
    IF ~valid
    THEN [g |-> g, res |-> RegexError]
    ELSE LET t == add_regex_token(g, regex_pattern, name)
         IN add_to_current_sort(t.g, new_atom(name, t.token))

juxtapose(g) ==
    IF get_prec(g) = None
    THEN [g |-> g, res |-> PrecNotSet]
    ELSE add_to_current_sort(g, new_juxtapose(Unwrap(get_prec(g))))

juxtapose_right_assoc(g) ==
    IF get_prec(g) = None
    THEN [g |-> g, res |-> PrecNotSet]
    ELSE add_to_current_sort(g, new_juxtapose(Unwrap(get_prec(g))))

\* the loop of Grammar::op over pattern.followers
RECURSIVE compile_followers(_, _, _)
compile_followers(g, followers, compiled) ==
    IF followers = <<>>
    THEN [g |-> g, followers |-> compiled]
    ELSE LET s == insert_sort(g, Head(followers)[1])
             t == add_string_token(s.g, Head(followers)[2])
         IN compile_followers(t.g, Tail(followers),
                              Append(compiled, <<s.sort_id, t.token>>))

op(g, name, pattern) ==
    LET t == add_string_token(g, pattern.first_token)
        f == compile_followers(t.g, pattern.followers, <<>>)
    IN IF get_prec(f.g) = None
       THEN [g |-> f.g, res |-> PrecNotSet]
       ELSE IF name \in AssertedNames
       THEN [g |-> f.g, res |-> Panic]
       ELSE add_to_current_sort(f.g,
                Op_new(name, pattern.fixity, pattern.assoc,
                       Unwrap(get_prec(f.g)), t.token, f.followers))

(***************************************************************************)
(* The lexer (an external collaborator): a source is a sequence of         *)
(* strings, each lexed to the token of the pattern that matches it, or to  *)
(* ERROR when none does.                                                   *)
(***************************************************************************)
Digits == {"1", "2", "3", "4", "5"}

PatternMatches(pat, string) ==
    \/ pat = <<"string", string>>
    \/ pat = <<"regex", "[0-9]+">> /\ string \in Digits

lex_one(lb, string) ==
    IF \E i \in 1..Len(lb) : PatternMatches(lb[i], string)
    THEN (CHOOSE i \in 1..Len(lb) : PatternMatches(lb[i], string)) - 1 + FirstFreeToken
    ELSE TOKEN_ERROR

lex(lb, source) == [i \in 1..Len(source) |-> lex_one(lb, source[i])]

(***************************************************************************)
(* Lowering of a sort table to op-tokens and a precedence table.  A token  *)
(* t >= 3 owns three op-tokens: its prefixy, suffixy and follower role.    *)
(* A missing side is 0; a head with followers and the followers themselves *)
(* carry Prec::MAX as the wall.                                            *)
(***************************************************************************)
RoleIndex(role) ==
    CASE role = "prefixy" -> 0 [] role = "suffixy" -> 1 [] role = "follower" -> 2

OpTok(token, role) ==
    IF token < FirstFreeToken THEN token
    ELSE FirstFreeToken + 3 * (token - FirstFreeToken) + RoleIndex(role)

OrZero(o) == IF IsSome(o) THEN Unwrap(o) ELSE 0

Slot(mapping, token) ==
    IF token < Len(mapping) THEN At(mapping, token) ELSE None

HeadEntry(theop) ==
    <<OrZero(theop.left_prec),
      IF theop.followers # <<>> THEN PrecMAX ELSE OrZero(theop.right_prec)>>

\* the operators installed in a sort table
OpsOf(st) ==
    {Unwrap(st.token_to_prefixy_op[i]) :
        i \in {j \in 1..Len(st.token_to_prefixy_op) : IsSome(st.token_to_prefixy_op[j])}}
    \cup
    {Unwrap(st.token_to_suffixy_op[i]) :
        i \in {j \in 1..Len(st.token_to_suffixy_op) : IsSome(st.token_to_suffixy_op[j])}}

FollowerEntry(st, token) ==
    LET owners == UNION {{<<o, k>> : k \in {j \in 1..Len(o.followers) :
                                                  o.followers[j][2] = token}} :
                         o \in OpsOf(st)}
    IN IF owners = {} THEN <<0, 0>>
       ELSE LET ok == CHOOSE x \in owners : TRUE
            IN IF ok[2] < Len(ok[1].followers)
               THEN <<PrecMAX, PrecMAX>>
               ELSE <<PrecMAX, OrZero(ok[1].right_prec)>>

TableEntry(st, optok) ==
    IF optok = TOKEN_ERROR THEN <<0, 0>>
    ELSE IF optok = TOKEN_BLANK
    THEN <<OrZero(st.blank.left_prec), OrZero(st.blank.right_prec)>>
    ELSE IF optok = TOKEN_JUXTAPOSE
    THEN <<OrZero(st.juxtapose.left_prec), OrZero(st.juxtapose.right_prec)>>
    ELSE LET token == FirstFreeToken + (optok - FirstFreeToken) \div 3
             role == (optok - FirstFreeToken) % 3
         IN IF role = 0
            THEN IF IsSome(Slot(st.token_to_prefixy_op, token))
                 THEN HeadEntry(Unwrap(Slot(st.token_to_prefixy_op, token)))
                 ELSE <<0, 0>>
            ELSE IF role = 1
            THEN IF IsSome(Slot(st.token_to_suffixy_op, token))
                 THEN HeadEntry(Unwrap(Slot(st.token_to_suffixy_op, token)))
                 ELSE <<0, 0>>
            ELSE FollowerEntry(st, token)

\* the table of the grammar's current sort, indexed by op-token (from 0)
PrecTable(g) ==
    IF g.current_sort = None
    THEN [i \in 1..FirstFreeToken |-> <<0, 0>>]
    ELSE [i \in 1..(FirstFreeToken + 3 * Len(g.lexer_builder)) |->
             TableEntry(TableOf(g, Unwrap(g.current_sort)), i - 1)]

(***************************************************************************)
(* The implicit-operator preprocessor: maps each token to its op-token by  *)
(* context and inserts $Blank and $Juxtapose.                              *)
(***************************************************************************)
\* a lookup that knows no binding for ERROR
HasPrefixy_registered(st, token) == IsSome(Slot(st.token_to_prefixy_op, token))

HasPrefixy(st, token) ==
    token = TOKEN_ERROR \/ IsSome(Slot(st.token_to_prefixy_op, token))

PrefixyRightArg(st, token) ==
    token # TOKEN_ERROR /\ Unwrap(Slot(st.token_to_prefixy_op, token)).fixity = "Prefix"

HasSuffixy(st, token) == IsSome(Slot(st.token_to_suffixy_op, token))

SuffixyRightArg(st, token) ==
    Unwrap(Slot(st.token_to_suffixy_op, token)).fixity = "Infix"

\* at: the index of the source token an op-token stands for or is inserted before
OpLexeme(optok, at) == [token |-> optok, at |-> at]

RECURSIVE preprocess(_, _, _, _, _, _)
preprocess(st, tokens, i, expecting_expression, emitted, fuel) ==
    IF fuel = 0
    THEN [lexemes |-> emitted, diverged |-> TRUE]
    ELSE IF i > Len(tokens)
    THEN [lexemes |-> IF expecting_expression
                      THEN Append(emitted, OpLexeme(TOKEN_BLANK, i))
                      ELSE emitted,
          diverged |-> FALSE]
    ELSE IF expecting_expression
    THEN IF HasPrefixy(st, tokens[i])
         THEN preprocess(st, tokens, i + 1, PrefixyRightArg(st, tokens[i]),
                         Append(emitted, OpLexeme(OpTok(tokens[i], "prefixy"), i)),
                         fuel - 1)
         ELSE preprocess(st, tokens, i, FALSE,
                         Append(emitted, OpLexeme(TOKEN_BLANK, i)), fuel - 1)
    ELSE IF HasSuffixy(st, tokens[i])
         THEN preprocess(st, tokens, i + 1, SuffixyRightArg(st, tokens[i]),
                         Append(emitted, OpLexeme(OpTok(tokens[i], "suffixy"), i)),
                         fuel - 1)
         ELSE preprocess(st, tokens, i, TRUE,
                         Append(emitted, OpLexeme(TOKEN_JUXTAPOSE, i)), fuel - 1)

\* enough steps for every token to be preceded by one implicit op-token
PreFuel(tokens) == 2 * Len(tokens) + 2

Preprocess(g, tokens) ==
    preprocess(TableOf(g, Unwrap(g.current_sort)), tokens, 1, TRUE, <<>>,
               PreFuel(tokens))

(***************************************************************************)
(* simple_shunter.rs                                                       *)
(***************************************************************************)
\* a lookup that makes ERROR a wall
Lprec_error_wall(prec_table, token) ==
    IF token = TOKEN_ERROR THEN PrecMAX ELSE prec_table[token + 1][1]

\* prec_table[token], vectors being indexed from 0
Lprec(prec_table, token) == prec_table[token + 1][1]
Rprec(prec_table, token) == prec_table[token + 1][2]

Last(s) == s[Len(s)]
Front(s) == SubSeq(s, 1, Len(s) - 1)

\* an empty stack that counts as the tightest
top_rprec_zero(prec_table, stack) ==
    IF stack = <<>> THEN 0 ELSE prec_table[Last(stack).token + 1][2]

top_rprec(prec_table, stack) ==
    IF stack = <<>> THEN PrecMAX ELSE Rprec(prec_table, Last(stack).token)

\* the Shunter a call of shunt constructs
shunt(lexemes) == [stack |-> <<>>, iter |-> lexemes, pop_mode |-> FALSE]

\* an end of pop mode as soon as the top is no tighter than the popped lexeme
LeavesPopMode_on_equal(rprec, lprec) == rprec >= lprec

\* the comparison that ends pop mode
LeavesPopMode(rprec, lprec) == rprec > lprec

\* a shift that compares nothing
Shifts_always(rprec, lprec) == TRUE

\* a shift that needs the top to bind strictly looser
Shifts_strict(rprec, lprec) == rprec > lprec

\* the comparison that shifts the next lexeme
Shifts(rprec, lprec) == rprec >= lprec

\* one call of Shunter::next: the shunter afterwards and what it returns;
\* panicked when the pop of an empty stack is unwrapped
RECURSIVE next(_, _)
next(prec_table, sh) ==
    IF sh.pop_mode
    THEN IF sh.stack = <<>>
         THEN [sh |-> sh, ret |-> None, panicked |-> TRUE]
         ELSE [sh |-> [sh EXCEPT
                         !.stack = Front(sh.stack),
                         !.pop_mode = ~LeavesPopMode(
                             top_rprec(prec_table, Front(sh.stack)),
                             Lprec(prec_table, Last(sh.stack).token))],
               ret |-> Some(Last(sh.stack)),
               panicked |-> FALSE]
    ELSE IF sh.iter # <<>>
    THEN IF Shifts(top_rprec(prec_table, sh.stack),
                   Lprec(prec_table, Head(sh.iter).token))
         THEN next(prec_table, [sh EXCEPT !.stack = Append(sh.stack, Head(sh.iter)),
                                          !.iter = Tail(sh.iter)])
         ELSE next(prec_table, [sh EXCEPT !.pop_mode = TRUE])
    ELSE IF sh.stack = <<>>
    THEN [sh |-> sh, ret |-> None, panicked |-> FALSE]
    ELSE [sh |-> [sh EXCEPT !.stack = Front(sh.stack)],
          ret |-> Some(Last(sh.stack)),
          panicked |-> FALSE]

(***************************************************************************)
(* Builder runs: a grammar is what a sequence of builder calls leaves.     *)
(***************************************************************************)
SortCall(sort_name) == [fn |-> "sort", sort |-> sort_name]
GroupCall == [fn |-> "group"]
StringAtomCall(name, string) ==
    [fn |-> "string_atom", name |-> name, string_pattern |-> string]
RegexAtomCall(name, regex, valid) ==
    [fn |-> "regex_atom", name |-> name, regex_pattern |-> regex, valid |-> valid]
JuxtaposeCall == [fn |-> "juxtapose"]
JuxtaposeRightAssocCall == [fn |-> "juxtapose_right_assoc"]
Pattern(fixity, assoc, first_token, followers) ==
    [fixity |-> fixity, assoc |-> assoc, first_token |-> first_token,
     followers |-> followers]
OpCall(name, pattern) == [fn |-> "op", name |-> name, pattern |-> pattern]

Apply(g, call) ==
    CASE call.fn = "sort" -> sort(g, call.sort)
      [] call.fn = "group" -> group(g)
      [] call.fn = "string_atom" -> string_atom(g, call.name, call.string_pattern)
      [] call.fn = "regex_atom" -> regex_atom(g, call.name, call.regex_pattern, call.valid)
      [] call.fn = "juxtapose" -> juxtapose(g)
      [] call.fn = "juxtapose_right_assoc" -> juxtapose_right_assoc(g)
      [] call.fn = "op" -> op(g, call.name, call.pattern)

RECURSIVE Build(_, _)
Build(g, calls) ==
    IF calls = <<>> THEN g ELSE Build(Apply(g, Head(calls)).g, Tail(calls))

\* a declaration is a call made in the grp-th group
Decl(grp, call) == [grp |-> grp, call |-> call]

CallsIn(k, decls) ==
    LET InGroup(d) == d.grp = k
        chosen == SelectSeq(decls, InGroup)
    IN [i \in 1..Len(chosen) |-> chosen[i].call]

RECURSIVE GroupBlocks(_, _)
GroupBlocks(k, decls) ==
    IF k > MaxGroups THEN <<>>
    ELSE <<GroupCall>> \o CallsIn(k, decls) \o GroupBlocks(k + 1, decls)

\* sort "e", the atom, then MaxGroups groups holding the declarations
Script(atom, decls) == <<SortCall("e"), atom>> \o GroupBlocks(1, decls)

Groups == 1..MaxGroups
AtomA == StringAtomCall("atom", "a")

\* one token "o" with any prefixy and any suffixy operator, and juxtapose
PrefixyDecls ==
    {Decl(g, OpCall("pre", Pattern("Prefix", a, "o", <<>>))) :
        g \in Groups, a \in Assocs}
SuffixyDecls ==
    {Decl(g, OpCall("suf", Pattern(f, a, "o", <<>>))) :
        g \in Groups, a \in Assocs, f \in {"Suffix", "Infix"}}
JuxtaposeDecls ==
    {Decl(g, c) : g \in Groups, c \in {JuxtaposeCall, JuxtaposeRightAssocCall}}
Optional(S) == {<<>>} \cup {<<d>> : d \in S}
GenScripts ==
    {Script(AtomA, p \o s \o j) :
        p \in Optional(PrefixyDecls), s \in Optional(SuffixyDecls),
        j \in Optional(JuxtaposeDecls)}

\* two infix operators "t" and "l", each in a group of its own choice
PrecScripts ==
    {Script(AtomA, <<Decl(g1, OpCall("tight", Pattern("Infix", a1, "t", <<>>))),
                     Decl(g2, OpCall("loose", Pattern("Infix", a2, "l", <<>>)))>>) :
        g1 \in Groups, g2 \in Groups, a1 \in Assocs, a2 \in Assocs}

\* number atom; left group + and -; left group *
ArithScript ==
    Script(RegexAtomCall("number", "[0-9]+", TRUE),
           <<Decl(1, OpCall("plus", Pattern("Infix", "Left", "+", <<>>))),
             Decl(1, OpCall("minus", Pattern("Infix", "Left", "-", <<>>))),
             Decl(2, OpCall("times", Pattern("Infix", "Left", "*", <<>>)))>>)

\* prefix  if _ then _ else _  and infix +, in different groups
MixfixScripts ==
    {Script(AtomA,
            <<Decl(gi, OpCall("if", Pattern("Prefix", ai, "if",
                                            <<<<"e", "then">>, <<"e", "else">>>>))),
              Decl(gp, OpCall("plus", Pattern("Infix", ap, "+", <<>>)))>>) :
        gi \in Groups, gp \in Groups, ai \in Assocs, ap \in Assocs}

\* an infix operator "o" declared in the last group whose precedence is not a
\* wrapped one: the group opened by the Prec::MAX-th call of group
LastGroup == PrecMAX
LateGrammars ==
    {Build(groups(Build(Grammar_new, <<SortCall("e"), AtomA>>), LastGroup),
           <<OpCall("suf", Pattern("Infix", a, "o", <<>>))>>) : a \in Assocs}

RECURSIVE SeqsUpTo(_, _)
SeqsUpTo(S, n) ==
    IF n = 0 THEN {<<>>}
    ELSE SeqsUpTo(S, n - 1) \cup
         {Append(q, x) : q \in {r \in SeqsUpTo(S, n - 1) : Len(r) = n - 1}, x \in S}

SrcAOAOA == <<"a", "o", "a", "o", "a">>
SrcALATA == <<"a", "l", "a", "t", "a">>
SrcArith == <<"1", "-", "2", "+", "3", "*", "4", "*", "5">>
SrcIfThenElse ==
    <<<<"if", "prefixy">>, <<"a", "prefixy">>, <<"then", "follower">>,
      <<"a", "prefixy">>, <<"else", "follower">>, <<"a", "prefixy">>,
      <<"+", "suffixy">>, <<"a", "prefixy">>>>
GenSources == SeqsUpTo({"a", "o"}, MaxLen) \cup {SrcAOAOA}

\* bare precedence tables over two tokens, Prec::MAX among the entries
RawTokens == {0, 1}
RawPrecs == {0, 1, 2, PrecMAX}
RawTables == [1..Cardinality(RawTokens) -> RawPrecs \X RawPrecs]
RawSources == SeqsUpTo(RawTokens, MaxLen)

(***************************************************************************)
(* The table and the lexer of test_shunting.  One character is one lexeme, *)
(* blanks are skipped, and a character the lexer does not know is ERROR.   *)
(***************************************************************************)
TOKEN_ID == 3
TOKEN_TIMES == 4
TOKEN_PLUS == 5
TOKEN_NEG == 6
TOKEN_MINUS == 7
TOKEN_BANG == 8
TOKEN_OPEN == 9
TOKEN_CLOSE == 10
NUM_TOKENS == 11

Letters == {"a", "b"}

test_token(ch) ==
    CASE ch = "_" -> TOKEN_BLANK
      [] ch = "." -> TOKEN_JUXTAPOSE
      [] ch \in Letters -> TOKEN_ID
      [] ch = "*" -> TOKEN_TIMES
      [] ch = "+" -> TOKEN_PLUS
      [] ch = "~" -> TOKEN_NEG
      [] ch = "-" -> TOKEN_MINUS
      [] ch = "!" -> TOKEN_BANG
      [] ch = "(" -> TOKEN_OPEN
      [] ch = ")" -> TOKEN_CLOSE
      [] OTHER -> TOKEN_ERROR

\* the lexemes of src, each with the index of its character
test_lex(src) ==
    LET NotBlank(i) == src[i] # " "
        kept == SelectSeq([i \in 1..Len(src) |-> i], NotBlank)
    IN [k \in 1..Len(kept) |-> OpLexeme(test_token(src[kept[k]]), kept[k])]

TestTable ==
    [i \in 1..NUM_TOKENS |->
        CASE i - 1 = TOKEN_ERROR -> <<0, 0>>
          [] i - 1 = TOKEN_BLANK -> <<0, 0>>
          [] i - 1 = TOKEN_JUXTAPOSE -> <<10, 10>>
          [] i - 1 = TOKEN_ID -> <<0, 0>>
          [] i - 1 = TOKEN_BANG -> <<50, 0>>
          [] i - 1 = TOKEN_TIMES -> <<60, 60>>
          [] i - 1 = TOKEN_PLUS -> <<100, 99>>
          [] i - 1 = TOKEN_MINUS -> <<100, 99>>
          [] i - 1 = TOKEN_NEG -> <<0, 80>>
          [] i - 1 = TOKEN_OPEN -> <<0, 1000>>
          [] i - 1 = TOKEN_CLOSE -> <<1000, 0>>]

\* the stream of a shunter collected to its end
RECURSIVE collect(_, _, _)
collect(table, sh, out) ==
    LET r == next(table, sh)
    IN IF r.panicked \/ r.ret = None
       THEN [output |-> out, panicked |-> r.panicked]
       ELSE collect(table, r.sh, Append(out, Unwrap(r.ret)))

SrcOnePlusPercent == <<"1", " ", "+", " ", "%">>
SrcParenNegBlank == <<"(", "~", "_", ")">>
TestChars == {"a", "%", "+", "~", "(", ")"}
\* longer inputs with groups in every position
ParenSources ==
    {<<"(", "a", ")", "+", "b">>,
     <<"a", "+", "(", "b", ")">>,
     <<"(", "(", "a", ")", ")">>,
     <<"(", "a", ")", "+", "(", "b", ")">>,
     <<"a", "+", "(", "(", "b", ")", "+", "a", ")", "+", "b">>,
     <<"~", "(", "a", "+", "b", ")", "+", "a">>}
TestSources ==
    SeqsUpTo(TestChars, MaxLen) \cup {SrcOnePlusPercent, SrcParenNegBlank}
    \cup ParenSources

(***************************************************************************)
(* parsing/parse.rs.  The stream Parser::parse iterates holds nodes and    *)
(* errors; a span is <<start byte, end byte>> and stands for the slice of  *)
(* the source it delimits.                                                 *)
(***************************************************************************)
OkNode(token, span) == [kind |-> "Ok", token |-> token, span |-> span]
LexErrorElem(span) == [kind |-> "LexError", span |-> span]
ExtraSepElem(span) == [kind |-> "ExtraSep", span |-> span]
MissingSepElem(op_name, span, token) ==
    [kind |-> "MissingSep", op_name |-> op_name, span |-> span, token |-> token]

\* a column that counts from 0
Position_from_zero(span) == [line |-> 0, column |-> span[1]]

\* the Position of an error whose span is given
Position(span) == [line |-> 0, column |-> span[1] + 1]

\* the ParseError returned for an error element of the stream
ParseErrorOf(node) ==
    CASE node.kind = "LexError" ->
            [tag |-> "LexError", lexeme |-> [slice |-> node.span],
             pos |-> Position(node.span)]
      [] node.kind = "ExtraSep" ->
            [tag |-> "ExtraSeparator", separator |-> [slice |-> node.span],
             pos |-> Position(node.span)]
      [] node.kind = "MissingSep" ->
            [tag |-> "MissingSeparator", op_name |-> node.op_name,
             separator |-> [pattern |-> node.token], pos |-> Position(node.span)]

OkParsed(src, rpn_stack) == [tag |-> "Ok", source |-> src, stack |-> rpn_stack]

\* Parser::parse before its loop: nothing consumed, nothing returned
ParseOf(stream) == [rpn |-> stream, pos |-> 0, stack |-> <<>>, ret |-> None]
NoParse == ParseOf(<<>>)

\* the lexer and the shunter of a Parser on characters: blanks are skipped,
\* a lexeme spans its character, an implicit operator is empty, and an
\* ERROR lexeme becomes a LexError element
ParseStream(g, chars) ==
    LET NotBlank(i) == chars[i] # " "
        kept == SelectSeq([i \in 1..Len(chars) |-> i], NotBlank)
        tokens == lex(g.lexer_builder, [k \in 1..Len(kept) |-> chars[kept[k]]])
        out == collect(PrecTable(g), shunt(Preprocess(g, tokens).lexemes), <<>>).output
        Start(l) == IF l.at <= Len(kept) THEN kept[l.at] - 1 ELSE Len(chars)
        Span(l) == IF l.token \in {TOKEN_BLANK, TOKEN_JUXTAPOSE}
                   THEN <<Start(l), Start(l)>>
                   ELSE <<Start(l), Start(l) + 1>>
    IN [k \in 1..Len(out) |->
           IF out[k].token = TOKEN_ERROR THEN LexErrorElem(Span(out[k]))
           ELSE OkNode(out[k].token, Span(out[k]))]

\* the elements a stream is drawn from
Spans == {<<0, 1>>, <<4, 5>>}
StreamElems ==
    UNION {{OkNode(FirstFreeToken, sp), LexErrorElem(sp), ExtraSepElem(sp),
            MissingSepElem("if", sp, FirstFreeToken + 1)} : sp \in Spans}
Streams == SeqsUpTo(StreamElems, MaxLen)

(***************************************************************************)
(* State.                                                                  *)
(***************************************************************************)
VARIABLES
    grammar,        \* the Grammar under construction, or the one finished
    last_call,      \* the last builder call made
    result,         \* what it returned
    ncalls,         \* builder calls made since the first state
    groups_called,  \* group() calls made since Grammar::new
    scenario,       \* what the run is: "build", a parse of sources, a bare shunt
    source,         \* the input of the parse
    prec_table,     \* Shunter.prec_table
    stack,          \* Shunter.stack
    iter,           \* Shunter.iter: the lexemes not yet consumed
    pop_mode,       \* Shunter.pop_mode
    output,         \* the lexemes next has returned
    parsing,        \* Parser::parse: its stream, how much of it the loop
                    \* has taken, its RpnStack, and what it returned
    status          \* "building", "aborted", "ready", "running", "done", "panicked"

vars == <<grammar, last_call, result, ncalls, groups_called, scenario, source,
          prec_table, stack, iter, pop_mode, output, parsing, status>>
builder_vars == <<grammar, last_call, result, ncalls, groups_called>>
shunter_vars == <<prec_table, stack, iter, pop_mode, output>>

Finished(kind, g, src) ==
    /\ grammar = g
    /\ last_call = [fn |-> "finish"]
    /\ result = Ok
    /\ ncalls = 0
    /\ groups_called = g.current_prec
    /\ scenario = kind
    /\ source = src
    /\ prec_table = PrecTable(g)
    /\ stack = <<>>
    /\ iter = <<>>
    /\ pop_mode = FALSE
    /\ output = <<>>
    /\ parsing = NoParse
    /\ status = "ready"

InitGen == \E calls \in GenScripts, src \in GenSources :
              Finished("gen", Build(Grammar_new, calls), src)
InitLate == \E g \in LateGrammars : Finished("gen", g, SrcAOAOA)
InitPrec == \E calls \in PrecScripts :
              Finished("prec", Build(Grammar_new, calls), SrcALATA)
InitArith == Finished("arith", Build(Grammar_new, ArithScript), SrcArith)
InitMixfix == \E calls \in MixfixScripts :
              Finished("mixfix", Build(Grammar_new, calls), SrcIfThenElse)
InitRaw ==
    \E table \in RawTables, src \in RawSources :
        /\ grammar = Grammar_new
        /\ last_call = [fn |-> "new"]
        /\ result = Ok
        /\ ncalls = 0
        /\ groups_called = 0
        /\ scenario = "raw"
        /\ source = src
        /\ prec_table = table
        /\ stack = <<>>
        /\ iter = <<>>
        /\ pop_mode = FALSE
        /\ output = <<>>
        /\ parsing = NoParse
        /\ status = "ready"

Init == InitGen \/ InitLate \/ InitPrec \/ InitArith \/ InitMixfix \/ InitRaw

(***************************************************************************)
(* Parsing.                                                                *)
(***************************************************************************)
Piped == {"gen", "prec", "arith"}

\* Parser::parse up to its loop: lex, insert the implicit operators, shunt
parse_begin ==
    /\ status = "ready"
    /\ scenario \in Piped
    /\ LET sh == shunt(Preprocess(grammar, lex(grammar.lexer_builder, source)).lexemes)
       IN /\ stack' = sh.stack
          /\ iter' = sh.iter
          /\ pop_mode' = sh.pop_mode
    /\ status' = "running"
    /\ UNCHANGED <<builder_vars, scenario, source, prec_table, output, parsing>>

\* the lexemes of an input given with its roles, or as bare tokens
GivenLexemes ==
    IF scenario \in {"raw", "pratt"}
    THEN [i \in 1..Len(source) |-> OpLexeme(source[i], i)]
    ELSE IF scenario = "test"
    THEN test_lex(source)
    ELSE [i \in 1..Len(source) |->
             OpLexeme(OpTok(lex_one(grammar.lexer_builder, source[i][1]), source[i][2]), i)]

\* shunt(prec_table, iter) on lexemes that are op-tokens already
shunt_begin ==
    /\ status = "ready"
    /\ scenario \notin Piped
    /\ LET sh == shunt(GivenLexemes)
       IN /\ stack' = sh.stack
          /\ iter' = sh.iter
          /\ pop_mode' = sh.pop_mode
    /\ status' = "running"
    /\ UNCHANGED <<builder_vars, scenario, source, prec_table, output, parsing>>

\* one call of Shunter::next by the consumer of the stream
shunter_next ==
    /\ status = "running"
    /\ LET r == next(prec_table, [stack |-> stack, iter |-> iter, pop_mode |-> pop_mode])
       IN /\ stack' = r.sh.stack
          /\ iter' = r.sh.iter
          /\ pop_mode' = r.sh.pop_mode
          /\ output' = IF IsSome(r.ret) THEN Append(output, Unwrap(r.ret)) ELSE output
          /\ status' = IF r.panicked THEN "panicked"
                       ELSE IF IsSome(r.ret) THEN "running" ELSE "done"
    /\ UNCHANGED <<builder_vars, scenario, source, prec_table, parsing>>

Next == parse_begin \/ shunt_begin \/ shunter_next

Spec == Init /\ [][Next]_vars

(***************************************************************************)
(* Building: every builder call on every grammar reached from Grammar::new *)
(***************************************************************************)
SortNames == {"e", "s"}
\* two ordinary names, and two of the names of the implicit operators
OpNames == {"x", "y", "$Blank", "$Juxtapose"}
TokenStrings == {"a", "o"}
FollowerLists == {<<>>, <<<<"s", "o">>>>}
Patterns ==
    {Pattern(f, a, t, fl) :
        f \in Fixities, a \in Assocs, t \in TokenStrings, fl \in FollowerLists}

\* the calls already made on a builder when its exploration starts: none, a
\* sort, or a sort with one atom
FirstCalls ==
    {<<>>, <<SortCall("e")>>, <<SortCall("e"), StringAtomCall("x", "a")>>}
\* and the calls of group made before them
FirstGroups == {0, LastGroup}

\* a builder fresh from Grammar::new, or one on which group has been called
\* since, and then the calls of FirstCalls
InitBuild ==
    /\ \E n \in FirstGroups, calls \in FirstCalls :
          /\ grammar = Build(groups(Grammar_new, n), calls)
          /\ last_call = IF calls # <<>> THEN calls[Len(calls)]
                         ELSE IF n = 0 THEN [fn |-> "new"] ELSE GroupCall
          /\ groups_called = n
    /\ result = Ok
    /\ ncalls = 0
    /\ scenario = "build"
    /\ source = <<>>
    /\ prec_table = <<>>
    /\ stack = <<>>
    /\ iter = <<>>
    /\ pop_mode = FALSE
    /\ output = <<>>
    /\ parsing = NoParse
    /\ status = "building"

\* the builder call made, what it returned and what it left
Called(call, r) ==
    /\ status = "building"
    /\ ncalls < MaxCalls
    /\ grammar' = r.g
    /\ last_call' = call
    /\ result' = r.res
    /\ ncalls' = ncalls + 1
    /\ status' = IF r.res = Panic THEN "aborted" ELSE status
    /\ UNCHANGED <<scenario, source, shunter_vars, parsing>>

Sort ==
    \E sort_name \in SortNames :
        /\ Called(SortCall(sort_name), sort(grammar, sort_name))
        /\ UNCHANGED groups_called

\* at most MaxGroups calls of group after the first state; at Prec::MAX the
\* build decides between wrapping and aborting
Group ==
    /\ groups_called % LastGroup < MaxGroups
    /\ \E r \in {group(grammar), group_overflow_checked(grammar)} :
          Called(GroupCall, r)
    /\ groups_called' = groups_called + 1

StringAtom ==
    \E name \in OpNames, string \in TokenStrings :
        /\ Called(StringAtomCall(name, string), string_atom(grammar, name, string))
        /\ UNCHANGED groups_called

RegexAtom ==
    \E name \in OpNames, valid \in BOOLEAN :
        /\ Called(RegexAtomCall(name, "[0-9]+", valid),
                  regex_atom(grammar, name, "[0-9]+", valid))
        /\ UNCHANGED groups_called

Juxtapose ==
    /\ Called(JuxtaposeCall, juxtapose(grammar))
    /\ UNCHANGED groups_called

JuxtaposeRightAssoc ==
    /\ Called(JuxtaposeRightAssocCall, juxtapose_right_assoc(grammar))
    /\ UNCHANGED groups_called

OpAdd ==
    \E name \in OpNames, pattern \in Patterns :
        /\ Called(OpCall(name, pattern), op(grammar, name, pattern))
        /\ UNCHANGED groups_called

NextBuild ==
    Sort \/ Group \/ StringAtom \/ RegexAtom \/ Juxtapose \/ JuxtaposeRightAssoc \/ OpAdd

SpecBuild == InitBuild /\ [][NextBuild]_vars

(***************************************************************************)
(* Reading a finished parse.                                               *)
(***************************************************************************)
Finishedp == status \in {"done", "panicked"}
CurrentTable == TableOf(grammar, Unwrap(grammar.current_sort))
TokenOf(string) == lex_one(grammar.lexer_builder, string)
PrefixyOf(string) == Slot(CurrentTable.token_to_prefixy_op, TokenOf(string))
SuffixyOf(string) == Slot(CurrentTable.token_to_suffixy_op, TokenOf(string))
IsInfix(o, assoc) == IsSome(o) /\ Unwrap(o).fixity = "Infix" /\ Unwrap(o).assoc = assoc
\* the output by the position each lexeme has in the input
OutAt == [i \in 1..Len(output) |-> output[i].at]
\* the output by op-token
OutTok == [i \in 1..Len(output) |-> output[i].token]

(***************************************************************************)
(* C1: a left-associative infix operator of any group the builder made,    *)
(* between atoms: a o b o c is emitted as a b o c o.                       *)
(***************************************************************************)
C1_LeftAssociative ==
    (scenario = "gen" /\ source = SrcAOAOA /\ Finishedp /\ IsInfix(SuffixyOf("o"), "Left"))
        => (status = "done" /\ OutAt = <<1, 3, 2, 5, 4>>)

C1_Witness ==
    /\ scenario = "gen" /\ source = SrcAOAOA /\ status = "done"
    /\ IsInfix(SuffixyOf("o"), "Left")
    /\ Unwrap(SuffixyOf("o")).prec = MaxGroups
    /\ OutAt = <<1, 3, 2, 5, 4>>

(***************************************************************************)
(* C2: a right-associative infix operator of any group the builder made,   *)
(* the first included, between atoms: a o b o c is emitted as a b c o o.   *)
(***************************************************************************)
C2_RightAssociative ==
    (scenario = "gen" /\ source = SrcAOAOA /\ Finishedp /\ IsInfix(SuffixyOf("o"), "Right"))
        => (status = "done" /\ OutAt = <<1, 3, 5, 4, 2>>)

(***************************************************************************)
(* C3: with infix t declared in an earlier group than infix l, whatever    *)
(* their associativities, a l b t c is emitted as a b c t l.               *)
(***************************************************************************)
C3_Precedence ==
    (/\ scenario = "prec" /\ Finishedp
     /\ IsSome(SuffixyOf("t")) /\ IsSome(SuffixyOf("l"))
     /\ Unwrap(SuffixyOf("t")).prec < Unwrap(SuffixyOf("l")).prec)
        => (status = "done" /\ OutAt = <<1, 3, 5, 4, 2>>)

(***************************************************************************)
(* C4: number atom, left group + and -, then left group *: the input       *)
(* 1-2+3*4*5 is emitted as 1 2 - 3 4 5 * * + (the claim as made), as       *)
(* 1 2 - 3 + 4 * 5 * (the claim as amended).                               *)
(***************************************************************************)
C4_AsClaimed ==
    (scenario = "arith" /\ Finishedp)
        => (status = "done" /\ OutAt = <<1, 3, 2, 5, 7, 9, 8, 6, 4>>)

\* C4, amended: the later group binds looser, so * is applied last, to the left
C4_LaterGroupLooser ==
    (scenario = "arith" /\ Finishedp)
        => (status = "done" /\ OutAt = <<1, 3, 2, 5, 4, 7, 6, 9, 8>>)

C4_Witness ==
    /\ scenario = "arith" /\ status = "done" /\ Len(output) = Len(SrcArith)
    /\ Unwrap(SuffixyOf("+")).prec < Unwrap(SuffixyOf("*")).prec

(***************************************************************************)
(* C5: if a then b else c + d is emitted as a b c else then if d + when +  *)
(* is declared in a later group than if, and as a b c d + else then if     *)
(* when + is declared in an earlier group.                                 *)
(***************************************************************************)
C5_FollowersAreWalls ==
    (scenario = "mixfix" /\ Finishedp)
        => /\ Unwrap(SuffixyOf("+")).prec > Unwrap(PrefixyOf("if")).prec
                => (status = "done" /\ OutAt = <<2, 4, 6, 5, 3, 1, 8, 7>>)
           /\ Unwrap(SuffixyOf("+")).prec < Unwrap(PrefixyOf("if")).prec
                => (status = "done" /\ OutAt = <<2, 4, 6, 8, 7, 5, 3, 1>>)

(***************************************************************************)
(* C6: the empty input is emitted as one $Blank; the single token o, an    *)
(* infix operator with no prefixy binding, as $Blank $Blank o.             *)
(***************************************************************************)
OnlyInfix(string) ==
    /\ PrefixyOf(string) = None
    /\ IsSome(SuffixyOf(string)) /\ Unwrap(SuffixyOf(string)).fixity = "Infix"

\* C6: empty input gives one $Blank; a lone infix o gives $Blank $Blank o
C6_ImplicitBlank ==
    (scenario = "gen" /\ Finishedp)
        => /\ source = <<>> => (status = "done" /\ OutTok = <<TOKEN_BLANK>>)
           /\ (source = <<"o">> /\ OnlyInfix("o"))
                => (status = "done" /\
                    OutTok = <<TOKEN_BLANK, TOKEN_BLANK, OpTok(TokenOf("o"), "suffixy")>>)

(***************************************************************************)
(* C7: without mixfix operators, whatever the grammar and the tokens, the  *)
(* emitted stream is well-formed postfix: read left to right with each     *)
(* op-token's arity, no operator lacks an operand and one tree remains.    *)
(***************************************************************************)
ArityOf(optok) ==
    IF optok \in {TOKEN_ERROR, TOKEN_BLANK} THEN 0
    ELSE IF optok = TOKEN_JUXTAPOSE THEN CurrentTable.juxtapose.arity
    ELSE LET token == FirstFreeToken + (optok - FirstFreeToken) \div 3
         IN IF (optok - FirstFreeToken) % 3 = 0
            THEN Unwrap(Slot(CurrentTable.token_to_prefixy_op, token)).arity
            ELSE Unwrap(Slot(CurrentTable.token_to_suffixy_op, token)).arity

\* the number of trees after reading the stream, -1 once an operator lacked operands
RECURSIVE Trees(_, _, _)
Trees(stream, i, n) ==
    IF i > Len(stream) THEN n
    ELSE IF n < ArityOf(stream[i]) THEN -1
    ELSE Trees(stream, i + 1, n - ArityOf(stream[i]) + 1)

\* C7: the stream of a finished parse is one well-formed postfix tree
C7_WellFormedOutput ==
    (scenario = "gen" /\ Finishedp) => (status = "done" /\ Trees(OutTok, 1, 0) = 1)

C9_PopModeHasStack ==
    (scenario = "raw" /\ pop_mode) => stack # <<>>

(***************************************************************************)
(* C10: op, juxtapose and juxtapose_right_assoc return PrecNotSet exactly  *)
(* when no group call came before them, the sort being set or not, and     *)
(* then install no operator.                                               *)
(***************************************************************************)
NeedsGroup == {"op", "juxtapose", "juxtapose_right_assoc"}

\* the operators in the prefixy and suffixy tables, by sort
SlotOps(g) ==
    UNION {{<<g.sort_tables[i].sort, o>> : o \in OpsOf(g.sort_tables[i])} :
              i \in 1..Len(g.sort_tables)}

\* the implicit operators of the sorts g has are those h has for them
SameImplicitOps(g, h) ==
    \A i \in 1..Len(g.sort_tables) :
        /\ i <= Len(h.sort_tables)
        /\ h.sort_tables[i].juxtapose = g.sort_tables[i].juxtapose
        /\ h.sort_tables[i].blank = g.sort_tables[i].blank

\* C10: such a call returns PrecNotSet exactly when no group call preceded it,
\* and then leaves the installed operators as they were
C10_PrecNotSet ==
    [][last_call'.fn \in NeedsGroup =>
          /\ (result' = PrecNotSet) <=> (groups_called = 0)
          /\ groups_called = 0 =>
                (/\ SlotOps(grammar') = SlotOps(grammar)
                 /\ SameImplicitOps(grammar, grammar'))]_vars

C10_Witness ==
    /\ last_call.fn = "op" /\ result = PrecNotSet
    /\ groups_called = 0 /\ grammar.current_sort = None
    /\ ncalls > 1

(***************************************************************************)
(* Reading a builder call: the operator it hands to SortTable::add_op.     *)
(***************************************************************************)
AddsOp == {"op", "string_atom", "regex_atom"}

\* the pattern the call registers for the operator's first token
CallPattern(call) ==
    CASE call.fn = "op" -> <<"string", call.pattern.first_token>>
      [] call.fn = "string_atom" -> <<"string", call.string_pattern>>
      [] call.fn = "regex_atom" -> <<"regex", call.regex_pattern>>

\* the token of that pattern in grammar g
CallToken(g, call) ==
    PatternIndex(g.lexer_builder, CallPattern(call)) - 1 + FirstFreeToken

\* whether the operator goes to the prefixy table
CallPrefixy(call) ==
    call.fn # "op" \/ call.pattern.fixity \in {"Prefix", "Nilfix"}

\* what the (sort, token, slot) of the call holds in g, the token being h's
Occupant(g, h, call) ==
    LET st == TableOf(g, Unwrap(g.current_sort))
    IN Slot(IF CallPrefixy(call) THEN st.token_to_prefixy_op
            ELSE st.token_to_suffixy_op, CallToken(h, call))

\* the call gets as far as handing an operator to the current sort
OffersOp(g, call) ==
    /\ call.fn \in AddsOp
    /\ g.current_sort # None
    /\ call.fn = "op" => get_prec(g) # None
    /\ call.fn = "regex_atom" => call.valid

(***************************************************************************)
(* C11: an operator offered to an occupied (sort, token, slot) is refused  *)
(* with DuplicateOp naming the new and the old operator, and the occupant  *)
(* stays; offered to a free slot of the current sort it is installed there *)
(* whatever other sorts hold for the token. Names that begin with '$' are  *)
(* the matter of C16.                                                      *)
(***************************************************************************)
\* the names of OpNames that begin with '$'
DollarNames == {"$Blank", "$Juxtapose"}

\* the call offers an operator of an ordinary name to the current sort
OffersNamedOp(g, call) == OffersOp(g, call) /\ call.name \notin DollarNames

\* C11: occupied slot: DuplicateOp and the occupant kept; free slot: installed
C11_SlotUniqueness ==
    [][OffersNamedOp(grammar, last_call') =>
          IF IsSome(Occupant(grammar, grammar', last_call'))
          THEN /\ result' = DuplicateOp(last_call'.name,
                                Unwrap(Occupant(grammar, grammar', last_call')).name,
                                TableOf(grammar, Unwrap(grammar.current_sort)).sort)
               /\ Occupant(grammar', grammar', last_call') =
                      Occupant(grammar, grammar', last_call')
          ELSE /\ result' = Ok
               /\ IsSome(Occupant(grammar', grammar', last_call'))
               /\ Unwrap(Occupant(grammar', grammar', last_call')).name =
                      last_call'.name]_vars

\* a duplicate refused: the occupant kept, both names reported
C11_Witness ==
    /\ scenario = "build" /\ last_call.fn = "op"
    /\ result.tag = "DuplicateOp" /\ result.op_1 = "y" /\ result.op_2 = "x"
    /\ IsSome(Occupant(grammar, grammar, last_call))
    /\ Unwrap(Occupant(grammar, grammar, last_call)).name = "x"

(***************************************************************************)
(* C12: in one sort a prefixy operator (Prefix or Nilfix) and a suffixy    *)
(* operator (Suffix or Infix) of the same first token are both accepted,   *)
(* in either order, and both are there afterwards, each in its slot.       *)
(***************************************************************************)
\* what the other slot of the call's (sort, token) holds in g, the token being h's
OtherSlot(g, h, call) ==
    LET st == TableOf(g, Unwrap(g.current_sort))
    IN Slot(IF CallPrefixy(call) THEN st.token_to_suffixy_op
            ELSE st.token_to_prefixy_op, CallToken(h, call))

\* C12: an operator offered to a free slot whose token holds an operator in the
\* other slot is accepted, and then both slots hold their operators
C12_CrossRoleReuse ==
    [][(/\ OffersNamedOp(grammar, last_call')
        /\ Occupant(grammar, grammar', last_call') = None
        /\ IsSome(OtherSlot(grammar, grammar', last_call')))
          => /\ result' = Ok
             /\ IsSome(Occupant(grammar', grammar', last_call'))
             /\ Unwrap(Occupant(grammar', grammar', last_call')).name = last_call'.name
             /\ OtherSlot(grammar', grammar', last_call') =
                    OtherSlot(grammar, grammar', last_call')]_vars

\* a suffixy operator accepted for a token that holds a prefixy one
C12_Witness ==
    /\ scenario = "build" /\ last_call.fn = "op" /\ result = Ok
    /\ last_call.name \notin DollarNames
    /\ last_call.pattern.fixity = "Infix"
    /\ IsSome(Occupant(grammar, grammar, last_call))
    /\ Unwrap(Occupant(grammar, grammar, last_call)).name = last_call.name
    /\ IsSome(OtherSlot(grammar, grammar, last_call))
    /\ Unwrap(OtherSlot(grammar, grammar, last_call)).name # last_call.name

(***************************************************************************)
(* C13: string_atom and regex_atom never return PrecNotSet, leave          *)
(* current_prec alone and, when they succeed, install a Nilfix operator of *)
(* precedence 0 with no left and no right precedence, whatever the number  *)
(* of group calls made before.                                             *)
(***************************************************************************)
Atoms == {"string_atom", "regex_atom"}

\* the operator a successful call has put in the current sort's table
Installed(g, call) ==
    LET st == TableOf(g, Unwrap(g.current_sort))
    IN IF call.name = "$Juxtapose" THEN st.juxtapose
       ELSE IF call.name = "$Blank" THEN st.blank
       ELSE Unwrap(Occupant(g, g, call))

\* C13: atoms never need a group and are always of precedence 0
C13_AtomsIgnoreGroup ==
    [][last_call'.fn \in Atoms =>
          /\ result' # PrecNotSet
          /\ grammar'.current_prec = grammar.current_prec
          /\ result' = Ok =>
                /\ Installed(grammar', last_call').name = last_call'.name
                /\ Installed(grammar', last_call').fixity = "Nilfix"
                /\ Installed(grammar', last_call').prec = 0
                /\ Installed(grammar', last_call').left_prec = None
                /\ Installed(grammar', last_call').right_prec = None]_vars

\* an atom installed after group calls
C13_Witness ==
    /\ scenario = "build" /\ last_call.fn \in Atoms /\ result = Ok
    /\ ncalls > 0 /\ groups_called > 0 /\ grammar.current_prec > 0
    /\ last_call.name \notin DollarNames
    /\ Installed(grammar, last_call).prec = 0

(***************************************************************************)
(* C14: for two operators declared in different groups both of prec - 1    *)
(* and prec of the earlier group are below both of the later group, and no *)
(* left or right precedence of an operator of a group is 0, the precedence *)
(* of atoms.                                                               *)
(***************************************************************************)
\* the operators of the finished grammar that were declared in a group
GroupOps ==
    {o \in UNION {OpsOf(grammar.sort_tables[i]) : i \in 1..Len(grammar.sort_tables)} :
        o.prec >= 1}

\* the left and right precedences the operator has
HalfPrecs(o) ==
    {Unwrap(h) : h \in {x \in {o.left_prec, o.right_prec} : IsSome(x)}}

C14_GroupsNeverAlias ==
    status = "ready" /\ scenario \in {"gen", "prec", "arith", "mixfix"}
        => /\ \A o1 \in GroupOps, o2 \in GroupOps :
                 o1.prec < o2.prec => o1.prec < Sub1(o2.prec)
           /\ \A o \in GroupOps : 0 \notin HalfPrecs(o)

(***************************************************************************)
(* C15: an operator constructed with a declared precedence of 1 or more    *)
(* has the left and right precedence of the table: Nilfix (none, none),    *)
(* Prefix Left (none, prec-1), Prefix Right (none, prec), Suffix Left      *)
(* (prec, none), Suffix Right (prec-1, none), Infix Left (prec, prec-1),   *)
(* Infix Right (prec-1, prec).                                             *)
(***************************************************************************)
\* the table, in integers
TableOfPrecs(fixity, assoc, prec) ==
    CASE fixity = "Nilfix" -> <<None, None>>
      [] fixity = "Prefix" -> <<None, Some(IF assoc = "Left" THEN prec - 1 ELSE prec)>>
      [] fixity = "Suffix" -> <<Some(IF assoc = "Left" THEN prec ELSE prec - 1), None>>
      [] fixity = "Infix" -> IF assoc = "Left" THEN <<Some(prec), Some(prec - 1)>>
                             ELSE <<Some(prec - 1), Some(prec)>>

\* C15: the operator a successful call of op installs has the precedences of
\* the table for the call's fixity and associativity and the group's precedence
C15_PrecedenceDerivation ==
    [][(last_call'.fn = "op" /\ result' = Ok) =>
          /\ Installed(grammar', last_call').prec = grammar.current_prec
          /\ Installed(grammar', last_call').prec >= 1
          /\ Installed(grammar', last_call').fixity = last_call'.pattern.fixity
          /\ Installed(grammar', last_call').assoc = last_call'.pattern.assoc
          /\ <<Installed(grammar', last_call').left_prec,
               Installed(grammar', last_call').right_prec>> =
                 TableOfPrecs(last_call'.pattern.fixity, last_call'.pattern.assoc,
                              grammar.current_prec)]_vars

\* a left-associative infix operator declared in the second group
C15_Witness ==
    /\ scenario = "build" /\ last_call.fn = "op" /\ result = Ok
    /\ last_call.pattern.fixity = "Infix" /\ last_call.pattern.assoc = "Left"
    /\ last_call.name \notin DollarNames
    /\ Installed(grammar, last_call).left_prec = Some(grammar.current_prec)
    /\ Installed(grammar, last_call).right_prec = Some(grammar.current_prec - 1)
    /\ grammar.current_prec \in 1..MaxGroups

(***************************************************************************)
(* C16: op with a name that begins with '$' returns an error, does not     *)
(* abort, and leaves the implicit operators and the operator tables of     *)
(* every sort as they were.                                                *)
(***************************************************************************)
C16_ReservedNames ==
    [][(last_call'.fn = "op" /\ last_call'.name \in DollarNames) =>
          /\ result'.tag \notin {"Ok", "Panic"}
          /\ SlotOps(grammar') = SlotOps(grammar)
          /\ SameImplicitOps(grammar, grammar')]_vars

(***************************************************************************)
(* Shunting alone: the runs of test_shunting, on every short input.        *)
(***************************************************************************)
InitTest ==
    \E src \in TestSources :
        /\ grammar = Grammar_new
        /\ last_call = [fn |-> "new"]
        /\ result = Ok
        /\ ncalls = 0
        /\ groups_called = 0
        /\ scenario = "test"
        /\ source = src
        /\ prec_table = TestTable
        /\ stack = <<>>
        /\ iter = <<>>
        /\ pop_mode = FALSE
        /\ output = <<>>
        /\ parsing = NoParse
        /\ status = "ready"

InitShunt == InitTest

NextShunt == shunt_begin \/ shunter_next

SpecShunt == InitShunt /\ [][NextShunt]_vars

\* the atoms of the test's lexer
TestAtoms == {TOKEN_BLANK, TOKEN_ID}

\* the whole stream of the shunter on the lexemes, under the state's table
Stream(lexemes) == collect(prec_table, shunt(lexemes), <<>>)

\* the lexemes with the one at source index at made an ERROR lexeme
AsError(lexemes, at) ==
    [k \in 1..Len(lexemes) |->
        IF lexemes[k].at = at THEN OpLexeme(TOKEN_ERROR, at) ELSE lexemes[k]]

Occurrences(s, x) == Cardinality({k \in 1..Len(s) : s[k] = x})

(***************************************************************************)
(* C17: with the ERROR entry (0, 0) the shunter passes ERROR lexemes       *)
(* through like atoms: every ERROR lexeme of the input is at all times in  *)
(* exactly one of the unread input, the stack and the output, the run ends *)
(* normally with all of them emitted, 1 + % gives 1 % +, and making any    *)
(* atom lexeme an ERROR lexeme changes the stream only by that lexeme, at  *)
(* the same place.                                                         *)
(***************************************************************************)
C17_ErrorsPassThrough ==
    (scenario = "test" /\ status # "ready") =>
        /\ Lprec(prec_table, TOKEN_ERROR) = 0
        /\ Rprec(prec_table, TOKEN_ERROR) = 0
        /\ status # "panicked"
        /\ \A k \in 1..Len(GivenLexemes) :
              GivenLexemes[k].token = TOKEN_ERROR =>
                  Occurrences(iter, GivenLexemes[k])
                  + Occurrences(stack, GivenLexemes[k])
                  + Occurrences(output, GivenLexemes[k]) = 1
        /\ status = "done" => iter = <<>> /\ stack = <<>>
        /\ (status = "done" /\ source = SrcOnePlusPercent) =>
              output = <<OpLexeme(TOKEN_ERROR, 1), OpLexeme(TOKEN_ERROR, 5),
                         OpLexeme(TOKEN_PLUS, 3)>>
        /\ \A k \in 1..Len(GivenLexemes) :
              GivenLexemes[k].token \in TestAtoms =>
                  Stream(AsError(GivenLexemes, GivenLexemes[k].at)) =
                      [output |-> AsError(Stream(GivenLexemes).output,
                                          GivenLexemes[k].at),
                       panicked |-> Stream(GivenLexemes).panicked]

C17_Witness ==
    /\ scenario = "test"
    /\ status = "done"
    /\ source = SrcOnePlusPercent
    /\ output = <<OpLexeme(TOKEN_ERROR, 1), OpLexeme(TOKEN_ERROR, 5),
                  OpLexeme(TOKEN_PLUS, 3)>>

(***************************************************************************)
(* Parser::parse from its loop on, over every short stream and over the    *)
(* stream of 1 + % under the arithmetic grammar.                           *)
(***************************************************************************)
ArithGrammar == Build(Grammar_new, ArithScript)

InitParse ==
    \E stream \in Streams \cup {ParseStream(ArithGrammar, SrcOnePlusPercent)} :
        /\ grammar = ArithGrammar
        /\ last_call = [fn |-> "finish"]
        /\ result = Ok
        /\ ncalls = 0
        /\ groups_called = ArithGrammar.current_prec
        /\ scenario = "parse"
        /\ source = SrcOnePlusPercent
        /\ prec_table = PrecTable(ArithGrammar)
        /\ stack = <<>>
        /\ iter = <<>>
        /\ pop_mode = FALSE
        /\ output = <<>>
        /\ parsing = ParseOf(stream)
        /\ status = "parsing"

\* one turn of the loop: the next element is pushed, or its error returned
parse_node ==
    /\ status = "parsing"
    /\ parsing.pos < Len(parsing.rpn)
    /\ LET node == parsing.rpn[parsing.pos + 1]
       IN IF node.kind = "Ok"
          THEN /\ parsing' = [parsing EXCEPT !.pos = @ + 1,
                                             !.stack = Append(@, node)]
               /\ UNCHANGED status
          ELSE /\ parsing' = [parsing EXCEPT !.pos = @ + 1,
                                             !.ret = Some(ParseErrorOf(node))]
               /\ status' = "returned"
    /\ UNCHANGED <<builder_vars, scenario, source, shunter_vars>>

\* the stream is exhausted: Ok(Parsed {source, stack})
parse_end ==
    /\ status = "parsing"
    /\ parsing.pos = Len(parsing.rpn)
    /\ parsing' = [parsing EXCEPT !.ret = Some(OkParsed(source, parsing.stack))]
    /\ status' = "returned"
    /\ UNCHANGED <<builder_vars, scenario, source, shunter_vars>>

NextParse == parse_node \/ parse_end

SpecParse == InitParse /\ [][NextParse]_vars

IsError(node) == node.kind # "Ok"
HasError(stream) == \E k \in 1..Len(stream) : IsError(stream[k])
FirstError(stream) ==
    CHOOSE k \in 1..Len(stream) :
        IsError(stream[k]) /\ \A j \in 1..(k - 1) : ~IsError(stream[j])

(***************************************************************************)
(* C18: Parser::parse returns Ok(Parsed) exactly when the stream has no    *)
(* error element, and Parsed then holds every node in stream order;        *)
(* otherwise it returns the ParseError of the first error element, of the  *)
(* same kind, with line 0 and column = span start + 1, having taken no     *)
(* element after it; for 1 + % the error is a LexError at column 5.        *)
(***************************************************************************)
C18_FirstErrorReturned ==
    (scenario = "parse" /\ status = "returned") =>
        LET ret == Unwrap(parsing.ret)
        IN /\ IsSome(parsing.ret)
           /\ ret.tag = "Ok" <=> ~HasError(parsing.rpn)
           /\ ret.tag = "Ok" =>
                 /\ ret.stack = parsing.rpn
                 /\ parsing.pos = Len(parsing.rpn)
           /\ HasError(parsing.rpn) =>
                 LET first == parsing.rpn[FirstError(parsing.rpn)]
                 IN /\ ret.tag = CASE first.kind = "LexError" -> "LexError"
                                   [] first.kind = "ExtraSep" -> "ExtraSeparator"
                                   [] first.kind = "MissingSep" -> "MissingSeparator"
                    /\ ret.pos.line = 0
                    /\ ret.pos.column = first.span[1] + 1
                    /\ parsing.pos = FirstError(parsing.rpn)
           /\ parsing.rpn = ParseStream(ArithGrammar, SrcOnePlusPercent) =>
                 /\ ret.tag = "LexError"
                 /\ ret.pos.column = 5

C18_Witness ==
    /\ scenario = "parse"
    /\ status = "returned"
    /\ parsing.rpn = ParseStream(ArithGrammar, SrcOnePlusPercent)
    /\ Len(parsing.rpn) = 3
    /\ parsing.pos = 2
    /\ Len(parsing.stack) = 1
    /\ Unwrap(parsing.ret).tag = "LexError"
    /\ Unwrap(parsing.ret).pos = [line |-> 0, column |-> 5]

(***************************************************************************)
(* Shunting under the tables the builder derives: an atom, a prefix, a     *)
(* suffix and two infix operators, each of either associativity and in any *)
(* group, on well-formed inputs.                                           *)
(***************************************************************************)
PrattFixity(token) ==
    CASE token = TOKEN_NEG -> "Prefix"
      [] token = TOKEN_BANG -> "Suffix"
      [] token \in {TOKEN_PLUS, TOKEN_TIMES} -> "Infix"
      [] OTHER -> "Nilfix"

PrattOps == {TOKEN_NEG, TOKEN_BANG, TOKEN_PLUS, TOKEN_TIMES}
PrattTokens == {TOKEN_ID} \cup PrattOps

\* the table entry of an operator without followers
DerivedEntry(fixity, assoc, prec) ==
    <<OrZero(derive_precs(fixity, assoc, prec)[1]),
      OrZero(derive_precs(fixity, assoc, prec)[2])>>

DerivedTables ==
    {[i \in 1..NUM_TOKENS |->
         IF i - 1 \in PrattOps
         THEN DerivedEntry(PrattFixity(i - 1), c[i - 1].assoc, c[i - 1].prec)
         ELSE <<0, 0>>] :
        c \in [PrattOps -> [assoc : Assocs, prec : Groups]]}

\* operands and operators alternate: prefixes before an operand, suffixes and
\* infixes after one, an operand last
RECURSIVE Alternates(_, _, _)
Alternates(tokens, i, expecting_operand) ==
    IF i > Len(tokens) THEN ~expecting_operand
    ELSE LET f == PrattFixity(tokens[i])
         IN IF expecting_operand
            THEN f \in {"Nilfix", "Prefix"} /\ Alternates(tokens, i + 1, f = "Prefix")
            ELSE f \in {"Suffix", "Infix"} /\ Alternates(tokens, i + 1, f = "Infix")

SrcPlusTimesTimes ==
    <<TOKEN_ID, TOKEN_PLUS, TOKEN_ID, TOKEN_TIMES, TOKEN_ID, TOKEN_TIMES, TOKEN_ID>>
SrcNegTimesBang == <<TOKEN_NEG, TOKEN_ID, TOKEN_TIMES, TOKEN_ID, TOKEN_BANG>>
PrattSources ==
    {src \in SeqsUpTo(PrattTokens, MaxLen) : Alternates(src, 1, TRUE)}
    \cup {SrcPlusTimesTimes, SrcNegTimesBang}

InitPratt ==
    \E table \in DerivedTables, src \in PrattSources :
        /\ grammar = Grammar_new
        /\ last_call = [fn |-> "new"]
        /\ result = Ok
        /\ ncalls = 0
        /\ groups_called = 0
        /\ scenario = "pratt"
        /\ source = src
        /\ prec_table = table
        /\ stack = <<>>
        /\ iter = <<>>
        /\ pop_mode = FALSE
        /\ output = <<>>
        /\ parsing = NoParse
        /\ status = "ready"

SpecPratt == InitPratt /\ [][NextShunt]_vars

(***************************************************************************)
(* The reference: recursive precedence climbing.  An expression is an      *)
(* operand followed by the operators it absorbs; an operator is absorbed   *)
(* exactly when its lprec is <= the limit, the rprec of the enclosing      *)
(* operator, and its right argument is parsed with its own rprec as the    *)
(* limit.  Each operator returns the postfix of what it read and the index *)
(* of the first lexeme it did not read.                                    *)
(***************************************************************************)
\* the limit when no operator encloses: above every precedence
Infinity == PrecMod

RECURSIVE pratt_expr(_, _, _, _)
RECURSIVE pratt_absorb(_, _, _, _, _)

pratt_absorb(table, lexemes, limit, left, i) ==
    IF i > Len(lexemes) \/ Lprec(table, lexemes[i].token) > limit
    THEN [post |-> left, i |-> i]
    ELSE IF PrattFixity(lexemes[i].token) = "Infix"
    THEN LET right == pratt_expr(table, lexemes, Rprec(table, lexemes[i].token), i + 1)
         IN pratt_absorb(table, lexemes, limit,
                         left \o right.post \o <<lexemes[i]>>, right.i)
    ELSE pratt_absorb(table, lexemes, limit, Append(left, lexemes[i]), i + 1)

pratt_expr(table, lexemes, limit, i) ==
    IF PrattFixity(lexemes[i].token) = "Prefix"
    THEN LET arg == pratt_expr(table, lexemes, Rprec(table, lexemes[i].token), i + 1)
         IN pratt_absorb(table, lexemes, limit, Append(arg.post, lexemes[i]), arg.i)
    ELSE pratt_absorb(table, lexemes, limit, <<lexemes[i]>>, i + 1)

Reference(table, lexemes) == pratt_expr(table, lexemes, Infinity, 1).post

(***************************************************************************)
(* C19: on every table derived from atoms and prefix, suffix and infix     *)
(* operators, and every well-formed input, the shunter ends normally and   *)
(* its output is the postfix stream of the reference parser.               *)
(***************************************************************************)
C19_EqualsReference ==
    (scenario = "pratt" /\ status \in {"done", "panicked"}) =>
        /\ status = "done"
        /\ output = Reference(prec_table, GivenLexemes)

(***************************************************************************)
(* Groups in the test's table: ( is a head with rprec 1000, ) its follower *)
(* with lprec 1000, and no other precedence reaches 1000.                  *)
(***************************************************************************)
\* what a lexeme of the test is: an operand, or an operator by its position
TestRole(token) ==
    CASE token \in {TOKEN_ERROR, TOKEN_BLANK, TOKEN_ID} -> "operand"
      [] token \in {TOKEN_NEG, TOKEN_OPEN} -> "before"
      [] token \in {TOKEN_BANG, TOKEN_CLOSE} -> "after"
      [] OTHER -> "between"

\* operands and operators alternate, and every ) closes a ( opened before it
RECURSIVE BalancedFrom(_, _, _, _)
BalancedFrom(lexemes, i, expecting_operand, depth) ==
    IF i > Len(lexemes) THEN ~expecting_operand /\ depth = 0
    ELSE LET t == lexemes[i].token
             d == IF t = TOKEN_OPEN THEN depth + 1
                  ELSE IF t = TOKEN_CLOSE THEN depth - 1 ELSE depth
         IN /\ d >= 0
            /\ IF expecting_operand
               THEN /\ TestRole(t) \in {"operand", "before"}
                    /\ BalancedFrom(lexemes, i + 1, TestRole(t) = "before", d)
               ELSE /\ TestRole(t) \in {"after", "between"}
                    /\ BalancedFrom(lexemes, i + 1, TestRole(t) = "between", d)

Balanced(lexemes) == BalancedFrom(lexemes, 1, TRUE, 0)

Count(lexemes, from, to, token) ==
    Cardinality({k \in from..to : lexemes[k].token = token})

\* the index of the ) that closes the ( at index h
Match(lexemes, h) ==
    CHOOSE f \in (h + 1)..Len(lexemes) :
        /\ Count(lexemes, h, f, TOKEN_OPEN) = Count(lexemes, h, f, TOKEN_CLOSE)
        /\ \A j \in (h + 1)..(f - 1) :
              Count(lexemes, h, j, TOKEN_OPEN) # Count(lexemes, h, j, TOKEN_CLOSE)

\* where in the output a lexeme is, 0 when it has not been emitted
PosOf(lexeme) ==
    IF \E p \in 1..Len(output) : output[p] = lexeme
    THEN CHOOSE p \in 1..Len(output) : output[p] = lexeme
    ELSE 0

PreStrings == {"a", "+", "if", "then", "%"}
PreSources == SeqsUpTo(PreStrings, MaxLen)

InitPre ==
    \E calls \in MixfixScripts, src \in PreSources :
        /\ grammar = Build(Grammar_new, calls)
        /\ last_call = [fn |-> "finish"]
        /\ result = Ok
        /\ ncalls = 0
        /\ groups_called = Build(Grammar_new, calls).current_prec
        /\ scenario = "pre"
        /\ source = src
        /\ prec_table = PrecTable(Build(Grammar_new, calls))
        /\ stack = <<>>
        /\ iter = <<>>
        /\ pop_mode = FALSE
        /\ output = <<>>
        /\ parsing = NoParse
        /\ status = "ready"

\* the pass run to its end, or cut off once it has taken more steps than
\* two per token; what it emitted becomes the input of the shunter
preprocess_run ==
    /\ status = "ready"
    /\ scenario = "pre"
    /\ LET r == Preprocess(grammar, lex(grammar.lexer_builder, source))
       IN /\ iter' = r.lexemes
          /\ status' = IF r.diverged THEN "diverged" ELSE "preprocessed"
    /\ UNCHANGED <<builder_vars, scenario, source, prec_table, stack, pop_mode,
                   output, parsing>>

\* the shunter is handed the lexemes of a pass that ended
preprocess_shunt ==
    /\ status = "preprocessed"
    /\ scenario = "pre"
    /\ status' = "running"
    /\ UNCHANGED <<builder_vars, scenario, source, shunter_vars, parsing>>

NextPre == preprocess_run \/ preprocess_shunt \/ shunter_next

SpecPre == InitPre /\ [][NextPre]_vars

Implicit == {TOKEN_BLANK, TOKEN_JUXTAPOSE}

\* the source indices of the tokens the pass consumed, in order
ConsumedAt(lexemes) ==
    LET IsToken(l) == l.token \notin Implicit
        kept == SelectSeq(lexemes, IsToken)
    IN [k \in 1..Len(kept) |-> kept[k].at]

ImplicitAt(lexemes, at) ==
    Cardinality({k \in 1..Len(lexemes) :
                    lexemes[k].token \in Implicit /\ lexemes[k].at = at})

\* the pass ended, consumed every token once and in order, and emitted at most
\* one implicit op-token before each token and at most one $Blank at the end
PassIsTotal(n, lexemes) ==
    /\ status = "preprocessed"
    /\ ConsumedAt(lexemes) = [k \in 1..n |-> k]
    /\ \A at \in 1..(n + 1) : ImplicitAt(lexemes, at) <= 1
    /\ \A k \in 1..Len(lexemes) :
          lexemes[k].at = n + 1 => lexemes[k].token = TOKEN_BLANK

\* the token has a binding the pass can consume it by
HasBinding(st, token) ==
    \/ token = TOKEN_ERROR
    \/ IsSome(Slot(st.token_to_prefixy_op, token))
    \/ IsSome(Slot(st.token_to_suffixy_op, token))

AllOps(g) ==
    UNION {OpsOf(g.sort_tables[i]) \cup {g.sort_tables[i].blank, g.sort_tables[i].juxtapose} :
           i \in 1..Len(g.sort_tables)}

(***************************************************************************)
(* C22: no operator the builder has constructed that takes an argument has *)
(* prec = 0, so prec - 1 was never computed from 0.                        *)
(***************************************************************************)
C22_NoPrecUnderflow ==
    scenario = "build" =>
        \A o \in AllOps(grammar) : o.fixity # "Nilfix" => o.prec # 0

\* every entry of the table is below Prec::MAX
BelowMax(table) ==
    \A i \in 1..Len(table) : table[i][1] < PrecMAX /\ table[i][2] < PrecMAX

\* the lexemes the shunter holds or has returned, in one sequence
Held == iter \o stack \o output

SameLexemes(s, t) ==
    /\ Len(s) = Len(t)
    /\ \A k \in 1..Len(t) : Cardinality({j \in 1..Len(s) : s[j] = t[k]}) = 1

(***************************************************************************)
(* C23: on a table whose entries are all below Prec::MAX the shunter never *)
(* loses, invents or repeats a lexeme and never aborts; every call of next *)
(* returns one more lexeme or, with input and stack both empty, None; so   *)
(* a run on n lexemes returns exactly n lexemes, a permutation of the      *)
(* input, and then None.                                                   *)
(***************************************************************************)
C23_ShunterConserves ==
    /\ []((scenario = "raw" /\ BelowMax(prec_table) /\ status # "ready") =>
             /\ status # "panicked"
             /\ SameLexemes(Held, GivenLexemes)
             /\ status = "done" =>
                   /\ iter = <<>> /\ stack = <<>>
                   /\ SameLexemes(output, GivenLexemes))
    /\ [][(scenario = "raw" /\ BelowMax(prec_table) /\ status = "running") =>
             \/ /\ Len(output') = Len(output) + 1
                /\ status' = "running"
             \/ /\ output' = output
                /\ iter = <<>> /\ stack = <<>>
                /\ status' = "done"]_vars

C23_Witness ==
    /\ scenario = "raw"
    /\ BelowMax(prec_table)
    /\ status = "done"
    /\ Len(source) = MaxLen
    /\ [k \in 1..Len(output) |-> output[k].at] = <<1, 3, 4, 2>>

\* each stack entry was shifted onto one that binds no tighter on its right
StackOrdered ==
    \A k \in 1..(Len(stack) - 1) :
        Rprec(prec_table, stack[k].token) >= Lprec(prec_table, stack[k + 1].token)

(***************************************************************************)
(* C24: in every shunter state the rprec of each stack entry is >= the     *)
(* lprec of the entry directly above it, and whenever a call of next pops  *)
(* a lexeme and stays in pop mode, the lprec of the popped lexeme equals   *)
(* the rprec of the new top (Prec::MAX for an empty stack).                *)
(***************************************************************************)
C24_StackOrdering ==
    /\ [](status \in {"running", "done", "panicked"} => StackOrdered)
    /\ [][(status = "running" /\ pop_mode' /\ Len(output') > Len(output)) =>
             Lprec(prec_table, Last(output').token) = top_rprec(prec_table, stack')]_vars

C24_Witness ==
    /\ status = "running"
    /\ pop_mode
    /\ Len(stack) >= 2
    /\ output # <<>>
    /\ Lprec(prec_table, Last(output).token) = top_rprec(prec_table, stack)
    /\ Rprec(prec_table, stack[1].token) > Lprec(prec_table, stack[2].token)

(***************************************************************************)
(* C25: a call of op that returns PrecNotSet, SortNotSet or DuplicateOp    *)
(* leaves the grammar as it was: sort tables, sort ids, token names,       *)
(* registered lexer tokens, current sort and current precedence.           *)
(***************************************************************************)
C25_FailedOpChangesNothing ==
    [][(last_call'.fn = "op"
        /\ result'.tag \in {"PrecNotSet", "SortNotSet", "DuplicateOp"}) =>
          /\ grammar'.sort_tables = grammar.sort_tables
          /\ grammar'.sort_ids = grammar.sort_ids
          /\ grammar'.token_names = grammar.token_names
          /\ grammar'.lexer_builder = grammar.lexer_builder
          /\ grammar'.current_sort = grammar.current_sort
          /\ grammar'.current_prec = grammar.current_prec]_vars

====
